---- MODULE Spec2Model ----
(***************************************************************************)
(* Model of the directory-listing service: configuration resolution        *)
(* (config.py), process start (main.py, server/__init__.py) and the        *)
(* GET /api/meta handler (server/routes/logical_route.py).                 *)
(*                                                                         *)
(* Python strings are sequences of one-character strings, so that          *)
(* indexing, slicing and concatenation are what the code makes them.       *)
(***************************************************************************)
EXTENDS Integers, Sequences, FiniteSets, TLC

VARIABLES
    environ,    \* os.environ: DIRECTORY and PROJECT_DEBUG
    DEBUG,      \* Config.DEBUG
    phase,      \* "start" before config.py is imported, then "serving"
    fs,         \* the directory /d of the filesystem
    handlers,   \* the execution contexts the server handles requests on
    pc,         \* per handler: position inside GetDirectory.get
    directory,  \* per handler: local `directory`
    todo,       \* per handler: entries of os.listdir still to visit
    t,          \* per handler: local `t` of the entry being visited
    heap,       \* the response dicts: object -> its "data" list
    exc,        \* per handler: the exception that left get(), if any
    response,   \* per handler: the response of its last request
    clean,      \* per handler: nothing changed since its request began
    log,        \* the last two responses of requests over an unchanged world
    arg,        \* input of a stand-alone os.path.splitext call
    ret         \* its result

vars == <<environ, DEBUG, phase, fs, handlers, pc, directory, todo, t, heap,
          exc, response, clean, log, arg, ret>>

cfgVars == <<environ, DEBUG, phase>>
reqVars == <<pc, directory, todo, t, heap, exc, response, clean, log>>
extVars == <<arg, ret>>

-----------------------------------------------------------------------------
(* Bounds *)

\* number of execution contexts handling requests concurrently
MaxHandlers == 2

\* longest file name given to a stand-alone splitext call
MaxNameLen == 5

-----------------------------------------------------------------------------
(* Python values *)

Str(s) == [t |-> "str", s |-> s, b |-> FALSE]
PyBool(b) == [t |-> "bool", s |-> <<>>, b |-> b]
\* a key that os.environ does not hold
Unset == [t |-> "unset", s |-> <<>>, b |-> FALSE]

DotSlash == <<".", "/">>
TrueStr == <<"T", "r", "u", "e">>

\* the values the environment gives to DIRECTORY
DirectoryValues ==
    { DotSlash, <<".">>, <<"/", "d">>, <<"/", "d", "/">>, <<>> }

\* the values the environment gives to PROJECT_DEBUG
DebugValues ==
    { TrueStr, <<"t", "r", "u", "e">>, <<"T", "R", "U", "E">>, <<"1">>,
      <<"F", "a", "l", "s", "e">>, <<>> }

\* a lookup that never finds the key
environ_get_missing(env, key, default) == default
\* os.environ.get(key, default) / os.getenv(key, default)
environ_get(env, key, default) ==
    IF env[key].t = "unset" THEN default ELSE env[key]

\* Python's ==: values of different types are unequal
PyEq(a, b) == a.t = b.t /\ a.s = b.s /\ a.b = b.b

-----------------------------------------------------------------------------
(* config.py *)

\* the flag taken from the truth value of the variable, bool(...), instead
ConfigDebugTruthy(env) ==
    LET v == environ_get(env, "PROJECT_DEBUG", PyBool(FALSE))
    IN  IF v.t = "str" THEN Len(v.s) > 0 ELSE v.b
\* DEBUG = os.environ.get("PROJECT_DEBUG", False) == "True"
ConfigDebug(env) ==
    PyEq(environ_get(env, "PROJECT_DEBUG", PyBool(FALSE)), Str(TrueStr))

\* os.environ["DIRECTORY"] = "./"  (an unconditional assignment)
ConfigDirectory(env) == [env EXCEPT !["DIRECTORY"] = Str(DotSlash)]

\* main.py: importing config runs the body of class Config, then
\* init_app(Config) and app.run start serving
LoadConfig ==
    /\ phase = "start"
    /\ environ' = ConfigDirectory(environ)
    /\ DEBUG' = ConfigDebug(ConfigDirectory(environ))
    /\ phase' = "serving"
    /\ UNCHANGED <<fs, handlers, reqVars, extVars>>

NoResponse == [status |-> 0, data |-> <<>>, exc |-> "none"]

\* the environment or the filesystem changes: no request in flight, and no
\* response kept, was computed from the world as it now is
Changed ==
    /\ clean' = [h \in DOMAIN clean |-> FALSE]
    /\ response' = [h \in DOMAIN response |-> NoResponse]
    /\ log' = <<>>

\* a caller assigns os.environ[key] = v, or deletes the key, while serving
SetEnv(key, v) ==
    /\ phase = "serving"
    /\ environ[key] # v
    /\ environ' = [environ EXCEPT ![key] = v]
    /\ Changed
    /\ UNCHANGED <<DEBUG, phase, fs, handlers, pc, directory, todo, t, heap,
                   exc, extVars>>

-----------------------------------------------------------------------------
(* The filesystem the handler reads *)

\* names of the entries of /d
Names == { <<"a", ".", "b">>, <<".", "r", "c">> }

\* An entry has a kind: "absent" (no such name), "file" (a regular file),
\* "dir" (a subdirectory), "special" (fifo, socket, device) or "dangling"
\* (a symbolic link to a missing target).

\* st_ctime in milliseconds: an entry as first found, and one changed later
CTimeOld == 1500
CTimeNew == 90061999

Entry(k, c) == [kind |-> k, ctime |-> c]
Absent == Entry("absent", 0)
Dangling == Entry("dangling", 0)

\* the current working directory, which the model keeps as it is
CwdEntries ==
    [n \in { <<"a", ".", "b">>, <<"s", "u", "b">> } |->
        IF n = <<"s", "u", "b">> THEN Entry("dir", CTimeOld)
                                 ELSE Entry("file", CTimeOld)]

NoDir == [exists |-> FALSE, entries |-> [n \in Names |-> Absent]]
Dir(es) == [exists |-> TRUE, entries |-> es]

RECURSIVE StripSlashes(_)
StripSlashes(p) ==
    IF Len(p) > 1 /\ p[Len(p)] = "/" THEN StripSlashes(SubSeq(p, 1, Len(p) - 1))
                                     ELSE p

\* the directory a path names: "." and "./" are the working directory,
\* "/d" and "/d/" are /d; every other path names nothing
Lookup(f, p) ==
    LET q == StripSlashes(p)
    IN  IF q = <<".">> THEN Dir(CwdEntries)
        ELSE IF q = <<"/", "d">> THEN f
        ELSE [exists |-> FALSE, entries |-> << >>]

\* the entry that the path p \o n names (stat follows a symbolic link)
LookupEntry(f, p, n) ==
    LET d == Lookup(f, p)
    IN  IF d.exists /\ n \in DOMAIN d.entries THEN d.entries[n] ELSE Absent

\* what an entry becomes when something changes it while the server runs
ChangedEntries ==
    { Absent, Dangling } \cup { Entry(k, CTimeNew) : k \in {"file", "dir", "special"} }

\* something creates, replaces, touches or removes the entry n of /d
FsPut(n, e) ==
    /\ phase = "serving"
    /\ fs.exists
    /\ fs.entries[n] # e
    /\ fs' = [fs EXCEPT !.entries[n] = e]
    /\ Changed
    /\ UNCHANGED <<cfgVars, handlers, pc, directory, todo, t, heap, exc,
                   extVars>>

\* rmdir /d (it is empty)
FsRmdir ==
    /\ phase = "serving"
    /\ fs.exists
    /\ \A n \in Names : fs.entries[n].kind = "absent"
    /\ fs' = NoDir
    /\ Changed
    /\ UNCHANGED <<cfgVars, handlers, pc, directory, todo, t, heap, exc,
                   extVars>>

\* mkdir /d
FsMkdir ==
    /\ phase = "serving"
    /\ ~fs.exists
    /\ fs' = Dir([n \in Names |-> Absent])
    /\ Changed
    /\ UNCHANGED <<cfgVars, handlers, pc, directory, todo, t, heap, exc,
                   extVars>>

-----------------------------------------------------------------------------
(* Library functions the handler calls *)

\* str.find(c): the first occurrence, not the last
RECURSIVE Find(_, _)
Find(p, c) ==
    IF p = <<>> THEN 0
    ELSE IF Head(p) = c THEN 1
    ELSE LET i == Find(Tail(p), c) IN IF i = 0 THEN 0 ELSE i + 1
\* str.rfind(c), counting from 1, 0 when c does not occur
RECURSIVE RFind(_, _)
RFind(p, c) ==
    IF p = <<>> THEN 0
    ELSE IF p[Len(p)] = c THEN Len(p)
    ELSE RFind(SubSeq(p, 1, Len(p) - 1), c)

\* the loop of os.path.splitext that skips the leading dots of the file name
RECURSIVE SplitAt(_, _, _)
SplitAt(p, filenameIndex, dotIndex) ==
    IF filenameIndex < dotIndex
    THEN IF p[filenameIndex] # "."
         THEN <<SubSeq(p, 1, dotIndex - 1), SubSeq(p, dotIndex, Len(p))>>
         ELSE SplitAt(p, filenameIndex + 1, dotIndex)
    ELSE <<p, <<>>>>

\* os.path.splitext(p)
splitext(p) ==
    LET sepIndex == RFind(p, "/")
        dotIndex == RFind(p, ".")
    IN  IF dotIndex > sepIndex THEN SplitAt(p, sepIndex + 1, dotIndex)
                               ELSE <<p, <<>>>>

Digit(n) == <<"0", "1", "2", "3", "4", "5", "6", "7", "8", "9">>[n + 1]
Pad2(n) == <<Digit((n \div 10) % 10), Digit(n % 10)>>
Pad4(n) == Pad2(n \div 100) \o Pad2(n % 100)

\* int(os.path.getctime(path)): whole seconds of st_ctime
IntCTime(e) == e.ctime \div 1000

\* datetime.utcfromtimestamp(ts).strftime('%Y-%m-%d %H:%M:%S'), for the
\* timestamps of January 1970 that the entries of the model carry
strftime(ts) ==
    LET days == ts \div 86400
        secs == ts % 86400
    IN  Pad4(1970) \o <<"-">> \o Pad2(1) \o <<"-">> \o Pad2(1 + days) \o <<" ">>
        \o Pad2(secs \div 3600) \o <<":">> \o Pad2((secs % 3600) \div 60)
        \o <<":">> \o Pad2(secs % 60)

\* os.path.exists(path)
exists(e) == e.kind \in {"file", "dir", "special"}
\* a test that takes whatever is there for a file
isfile_as_exists(e) == e.kind \in {"file", "dir", "special"}
\* os.path.isfile(path)
isfile(e) == e.kind = "file"

\* the orders in which os.listdir may give the names S
Orders(S) ==
    { o \in [1..Cardinality(S) -> S] : \A i, j \in DOMAIN o : o[i] = o[j] => i = j }

\* os.listdir(directory): the names there, a dangling link included
ListNames(d) == { n \in DOMAIN d.entries : d.entries[n].kind # "absent" }

-----------------------------------------------------------------------------
(* GetDirectory.get, one request per handler at a time *)

\* `resp` of every request bound to one module-level dict
RespObjShared(h) == 1
\* the dict that `resp = {"data": []}` binds in handler h: its own
RespObj(h) == h

\* if directory[-1] != "/": directory += "/"
Normalize(d) == IF d[Len(d)] # "/" THEN d \o <<"/">> ELSE d

\* an exception leaves get()
Raise(h, e) ==
    /\ pc' = [pc EXCEPT ![h] = "raised"]
    /\ exc' = [exc EXCEPT ![h] = e]

\* the response of handler h goes out; it is kept while the world it was
\* computed from is the world as it is
Respond(h, r) ==
    /\ pc' = [pc EXCEPT ![h] = "idle"]
    /\ directory' = [directory EXCEPT ![h] = <<>>]
    /\ todo' = [todo EXCEPT ![h] = <<>>]
    /\ t' = [t EXCEPT ![h] = <<>>]
    /\ exc' = [exc EXCEPT ![h] = "none"]
    /\ response' = [response EXCEPT ![h] = IF clean[h] THEN r ELSE NoResponse]
    /\ log' = IF ~clean[h] THEN log
              ELSE IF log = <<>> THEN <<r>>
              ELSE <<log[Len(log)], r>>

\* lines 13-16 with `resp` never rebound: the dict of the request before
BeginKeepResp(h) ==
    /\ phase = "serving"
    /\ pc[h] = "idle"
    /\ LET d == environ_get(environ, "DIRECTORY", Str(DotSlash)).s
       IN  /\ directory' = [directory EXCEPT ![h] = IF d = <<>> THEN d ELSE Normalize(d)]
           /\ IF d = <<>> THEN Raise(h, "IndexError")
              ELSE pc' = [pc EXCEPT ![h] = "listdir"] /\ exc' = exc
    /\ clean' = [clean EXCEPT ![h] = TRUE]
    /\ response' = [response EXCEPT ![h] = NoResponse]
    /\ UNCHANGED <<cfgVars, fs, handlers, todo, t, heap, log, extVars>>
\* lines 13-16: a fresh resp, DIRECTORY read from the environment, and the
\* trailing separator; directory[-1] of an empty string raises IndexError
Begin(h) ==
    /\ phase = "serving"
    /\ pc[h] = "idle"
    /\ heap' = [heap EXCEPT ![RespObj(h)] = <<>>]
    /\ LET d == environ_get(environ, "DIRECTORY", Str(DotSlash)).s
       IN  /\ directory' = [directory EXCEPT ![h] = IF d = <<>> THEN d ELSE Normalize(d)]
           /\ IF d = <<>> THEN Raise(h, "IndexError")
              ELSE pc' = [pc EXCEPT ![h] = "listdir"] /\ exc' = exc
    /\ clean' = [clean EXCEPT ![h] = TRUE]
    /\ response' = [response EXCEPT ![h] = NoResponse]
    /\ UNCHANGED <<cfgVars, fs, handlers, todo, t, log, extVars>>

\* line 17: os.listdir(directory), in an order of the filesystem's choice
ListDir(h) ==
    /\ pc[h] = "listdir"
    /\ LET d == Lookup(fs, directory[h])
       IN  IF ~d.exists
           THEN /\ Raise(h, "FileNotFoundError")
                /\ todo' = todo
           ELSE /\ \E o \in Orders(ListNames(d)) :
                     /\ todo' = [todo EXCEPT ![h] = o]
                     /\ pc' = [pc EXCEPT ![h] = IF o = <<>> THEN "return" ELSE "getctime"]
                /\ exc' = exc
    /\ UNCHANGED <<cfgVars, fs, handlers, directory, t, heap, response, clean,
                   log, extVars>>

\* lines 18-19: the timestamp of the entry, read before the entry is tested;
\* os.path.getctime raises FileNotFoundError when stat finds nothing
GetCTime(h) ==
    /\ pc[h] = "getctime"
    /\ LET e == LookupEntry(fs, directory[h], Head(todo[h]))
       IN  IF ~exists(e)
           THEN /\ Raise(h, "FileNotFoundError")
                /\ t' = t
           ELSE /\ t' = [t EXCEPT ![h] = strftime(IntCTime(e))]
                /\ pc' = [pc EXCEPT ![h] = "isfile"]
                /\ exc' = exc
    /\ UNCHANGED <<cfgVars, fs, handlers, directory, todo, heap, response, clean,
                   log, extVars>>

\* lines 20-25: a regular file is appended to resp["data"]; next entry
IsFile(h) ==
    /\ pc[h] = "isfile"
    /\ LET f == Head(todo[h])
           e == LookupEntry(fs, directory[h], f)
       IN  heap' = IF isfile(e)
                   THEN [heap EXCEPT ![RespObj(h)] =
                            Append(@, [name |-> f, type |-> splitext(f)[2], time |-> t[h]])]
                   ELSE heap
    /\ todo' = [todo EXCEPT ![h] = Tail(@)]
    /\ pc' = [pc EXCEPT ![h] = IF Tail(todo[h]) = <<>> THEN "return" ELSE "getctime"]
    /\ UNCHANGED <<cfgVars, fs, handlers, directory, t, exc, response, clean,
                   log, extVars>>

\* line 26: return resp, 200
Return(h) ==
    /\ pc[h] = "return"
    /\ Respond(h, [status |-> 200, data |-> heap[RespObj(h)], exc |-> "none"])
    /\ UNCHANGED <<cfgVars, fs, handlers, heap, clean, extVars>>

\* nothing in get() catches: the exception reaches the framework, which
\* answers 500 Internal Server Error
Unhandled(h) ==
    /\ pc[h] = "raised"
    /\ Respond(h, [status |-> 500, data |-> <<>>, exc |-> exc[h]])
    /\ UNCHANGED <<cfgVars, fs, handlers, heap, clean, extVars>>

-----------------------------------------------------------------------------
(* A stand-alone call of os.path.splitext, as line 23 makes it *)

NoRet == <<"?">>

Chars == { "a", "b", "." }

RECURSIVE Strings(_)
Strings(n) ==
    IF n = 0 THEN { <<>> }
    ELSE LET S == Strings(n - 1)
         IN  S \cup { Append(s, c) : s \in { x \in S : Len(x) = n - 1 }, c \in Chars }

\* names os.listdir can give: not empty, and neither "." nor ".."
NameInputs == Strings(MaxNameLen) \ { <<>>, <<".">>, <<".", ".">> }

CallSplitext ==
    /\ ret = NoRet
    /\ ret' = splitext(arg)[2]
    /\ UNCHANGED <<cfgVars, fs, handlers, reqVars, arg>>

-----------------------------------------------------------------------------
(* Specifications *)

EnvValues(S) == { Unset } \cup { Str(s) : s \in S }

\* /d as the process finds it: missing, or holding any entries
FsStates ==
    { NoDir } \cup
    { Dir(es) : es \in [Names -> { Absent, Dangling } \cup
                                  { Entry(k, CTimeOld) : k \in {"file", "dir", "special"} }] }

InitRequests(H) ==
    /\ handlers = H
    /\ pc = [h \in H |-> "idle"]
    /\ directory = [h \in H |-> <<>>]
    /\ todo = [h \in H |-> <<>>]
    /\ t = [h \in H |-> <<>>]
    /\ heap = [h \in H |-> <<>>]
    /\ exc = [h \in H |-> "none"]
    /\ response = [h \in H |-> NoResponse]
    /\ clean = [h \in H |-> FALSE]
    /\ log = <<>>

InitWorld(D, P, F, H, A) ==
    /\ environ \in [DIRECTORY : EnvValues(D), PROJECT_DEBUG : EnvValues(P)]
    /\ DEBUG = FALSE
    /\ phase = "start"
    /\ fs \in F
    /\ InitRequests(H)
    /\ arg \in A
    /\ ret = NoRet

\* the server, handling one request at a time
Init == InitWorld(DirectoryValues, {TrueStr}, FsStates, {1}, {<<>>})

Next ==
    \/ LoadConfig
    \/ \E v \in EnvValues(DirectoryValues) : SetEnv("DIRECTORY", v)
    \/ \E n \in Names, e \in ChangedEntries : FsPut(n, e)
    \/ FsRmdir
    \/ FsMkdir
    \/ \E h \in handlers : Begin(h)
    \/ \E h \in handlers : ListDir(h)
    \/ \E h \in handlers : GetCTime(h)
    \/ \E h \in handlers : IsFile(h)
    \/ \E h \in handlers : Return(h)
    \/ \E h \in handlers : Unhandled(h)

Spec == Init /\ [][Next]_vars

\* configuration resolution alone, over every value of both variables
InitConfig == InitWorld(DirectoryValues, DebugValues, {NoDir}, {1}, {<<>>})

NextConfig ==
    \/ LoadConfig
    \/ \E v \in EnvValues(DirectoryValues) : SetEnv("DIRECTORY", v)
    \/ \E v \in EnvValues(DebugValues) : SetEnv("PROJECT_DEBUG", v)

SpecConfig == InitConfig /\ [][NextConfig]_vars

\* the server handling requests concurrently over an unchanged directory
FsStatesConc ==
    { NoDir,
      Dir([n \in Names |-> Entry("file", CTimeOld)]),
      Dir([n \in Names |-> IF n = <<"a", ".", "b">> THEN Entry("file", CTimeOld)
                                                    ELSE Entry("dir", CTimeOld)]) }

InitConc == InitWorld({<<"/", "d">>}, {TrueStr}, FsStatesConc, 1..MaxHandlers, {<<>>})

NextConc ==
    \/ LoadConfig
    \/ SetEnv("DIRECTORY", Str(<<"/", "d">>))
    \/ SetEnv("DIRECTORY", Str(DotSlash))
    \/ \E h \in handlers : Begin(h)
    \/ \E h \in handlers : ListDir(h)
    \/ \E h \in handlers : GetCTime(h)
    \/ \E h \in handlers : IsFile(h)
    \/ \E h \in handlers : Return(h)
    \/ \E h \in handlers : Unhandled(h)

SpecConc == InitConc /\ [][NextConc]_vars

\* os.path.splitext on every name up to MaxNameLen characters
InitExt == InitWorld({}, {}, {NoDir}, {1}, NameInputs)

NextExt == CallSplitext

SpecExt == InitExt /\ [][NextExt]_vars

-----------------------------------------------------------------------------
(* What the claims speak of *)

Range(s) == { s[i] : i \in DOMAIN s }

\* the value of DIRECTORY, "./" when it has none
EnvDirectory ==
    IF environ.DIRECTORY = Unset THEN DotSlash ELSE environ.DIRECTORY.s

\* the directory GET /api/meta is configured to list
Target == Lookup(fs, EnvDirectory)

KindsIn(d) == { d.entries[n].kind : n \in DOMAIN d.entries }
RegularFiles(d) == { n \in DOMAIN d.entries : d.entries[n].kind = "file" }
DataNames(r) == { r.data[i].name : i \in DOMAIN r.data }

Answered(h) == response[h] # NoResponse

LastDotAt(s, i) == s[i] = "." /\ \A j \in (i + 1)..Len(s) : s[j] # "."
FromLastDot(s) ==
    IF \E i \in DOMAIN s : s[i] = "."
    THEN SubSeq(s, CHOOSE i \in DOMAIN s : LastDotAt(s, i), Len(s))
    ELSE <<>>

\* C1: a request made while the configured directory (a path that is not
\* empty) does not exist is answered 404, never 200 with an empty list and
\* never by an exception that nothing handled.
C1_MissingDirectoryIs404 ==
    \A h \in handlers :
        (Answered(h) /\ EnvDirectory # <<>> /\ ~Target.exists)
            => (response[h].status = 404 /\ response[h].exc = "none")

\* C2: over an unmodified existing directory holding only regular files and
\* subdirectories the answer is 200 and its names are exactly the regular
\* files, each once.
C2_ListsExactlyRegularFiles ==
    \A h \in handlers :
        (Answered(h) /\ Target.exists /\ KindsIn(Target) \subseteq {"absent", "file", "dir"})
            => /\ response[h].status = 200
               /\ DataNames(response[h]) = RegularFiles(Target)
               /\ Len(response[h].data) = Cardinality(RegularFiles(Target))

C2_Witness ==
    \E h \in handlers :
        /\ response[h].status = 200
        /\ Len(response[h].data) = 1
        /\ KindsIn(Target) = {"file", "dir"}

\* C3 as stated: type is the name from its last '.' on, empty when the name
\* has no '.', for every name.
C3_TypeFromLastDot == ret # NoRet => ret = FromLastDot(arg)

\* C3 amended: type is the name from its last '.' on when a character other
\* than '.' comes before that dot, and empty otherwise.
C3_TypeFromLastDotAfterStem ==
    ret # NoRet =>
        ret = IF \E i \in DOMAIN arg : LastDotAt(arg, i) /\ \E j \in 1..(i - 1) : arg[j] # "."
              THEN FromLastDot(arg)
              ELSE <<>>

C3_Witness == arg = <<".", "a", "b">> /\ ret = <<>>

\* C4: configuration resolution leaves a DIRECTORY that already has a value
\* as it is.
C4_ConfigKeepsSetDirectory ==
    [][(phase = "start" /\ phase' = "serving" /\ environ.DIRECTORY # Unset)
          => environ'.DIRECTORY = environ.DIRECTORY]_vars

\* C5: a request takes the directory DIRECTORY holds when it is made, an
\* override after configuration resolution included, and "./" only when
\* DIRECTORY has no value.
C5_RequestUsesCurrentDirectory ==
    \A h \in handlers :
        (pc[h] # "idle" /\ clean[h])
            => directory[h] \in { EnvDirectory, EnvDirectory \o <<"/">> }

C5_Witness ==
    /\ environ.DIRECTORY = Str(<<"/", "d">>)
    /\ pc[1] = "getctime"
    /\ clean[1]
    /\ directory[1] = <<"/", "d", "/">>

\* C6: resolution sets the debug flag to true exactly when PROJECT_DEBUG is
\* the string "True", and the flag stays as resolved.
C6_DebugIffExactlyTrue ==
    [][/\ (phase = "start" /\ phase' = "serving")
            => DEBUG' = (environ.PROJECT_DEBUG.t = "str" /\ environ.PROJECT_DEBUG.s = TrueStr)
       /\ phase = "serving" => DEBUG' = DEBUG]_vars

C6_Witness ==
    /\ phase = "serving"
    /\ ~DEBUG
    /\ environ.PROJECT_DEBUG = Str(<<"1">>)

\* C7: two consecutive requests with nothing changed from the start of the
\* first to the end of the second get the same status and the same entries.
C7_Idempotent ==
    Len(log) = 2 =>
        /\ log[1].status = log[2].status
        /\ Range(log[1].data) = Range(log[2].data)
        /\ Len(log[1].data) = Len(log[2].data)

C7_Witness ==
    /\ Len(log) = 2
    /\ log[1].status = 200
    /\ Len(log[1].data) = 2
    /\ log[1].data # log[2].data

\* C8: whatever the entries of an existing directory are, those that are no
\* regular file are skipped and the answer is 200 with the regular files.
C8_NonRegularEntriesSkipped ==
    \A h \in handlers :
        (Answered(h) /\ Target.exists)
            => /\ response[h].status = 200
               /\ DataNames(response[h]) = RegularFiles(Target)

\* C9: for every value d of the directory path, the empty string included,
\* the handler goes on with d when d ends with '/' and with d followed by
\* '/' otherwise, and does not fail.
C9_NormalizesEveryPath ==
    \A h \in handlers :
        (pc[h] # "idle" /\ clean[h])
            => /\ exc[h] # "IndexError"
               /\ directory[h] =
                    IF EnvDirectory # <<>> /\ EnvDirectory[Len(EnvDirectory)] = "/"
                    THEN EnvDirectory
                    ELSE EnvDirectory \o <<"/">>

\* what a request running alone answers over the world as it is
AloneEntries ==
    { [name |-> n, type |-> splitext(n)[2], time |-> strftime(IntCTime(Target.entries[n]))] :
        n \in RegularFiles(Target) }
AloneStatus ==
    IF EnvDirectory # <<>> /\ Target.exists /\ "dangling" \notin KindsIn(Target)
    THEN 200 ELSE 500

\* C10: under every interleaving of handlers over an unchanged directory,
\* each response is the one its request gets running alone: its entries are
\* the ones it collected, none leaked, doubled or lost.
C10_ConcurrentRequestsIsolated ==
    \A h \in handlers :
        Answered(h)
            => /\ response[h].status = AloneStatus
               /\ response[h].status = 200 =>
                    /\ Range(response[h].data) = AloneEntries
                    /\ Len(response[h].data) = Cardinality(AloneEntries)

C10_Witness ==
    /\ pc[1] = "return"
    /\ pc[2] = "isfile"
    /\ Len(heap[1]) = 2
    /\ Len(heap[2]) = 1

====
